---- MODULE Spec2Model ----
(***************************************************************************)
(* A model of the chunk-extraction-and-merge pipeline of KG-extraction:    *)
(*   - TextProcessor.split_into_chunks   (src/src/processors)              *)
(*   - TextProcessor.normalize_triple / deduplicate_triples                *)
(*   - KnowledgeGraphPipeline.process_text (src/src/pipeline.py)           *)
(* Strings are sequences of one-character strings, so that strip, lower    *)
(* and split are computed character by character, as Python computes them. *)
(***************************************************************************)
EXTENDS Integers, Sequences, FiniteSets, TLC

VARIABLES
    \* ---- TextProcessor object and one split_into_chunks call
    text,           \* the argument of split_into_chunks
    chunk_size,     \* self.chunk_size
    overlap,        \* self.overlap
    words,          \* text.split()
    chunks,         \* the list being built / returned
    start_index,    \* loop variable
    chunk_number,   \* loop variable
    spans,          \* history: <<start_index, end_index>> of every emitted chunk
    ck_pc,          \* "idle" | "loop" | "done"
    \* ---- one normalize_triple call
    nt_in,          \* the argument (a dict)
    nt_out,         \* the returned dict, or None
    nt_pc,          \* "idle" | "called" | "returned"
    \* ---- deduplicate_triples calls
    dd_in,          \* the list X being collected / passed
    dd_out,         \* deduplicate_triples(X)
    dd_perm,        \* a permutation P of X
    dd_perm_out,    \* deduplicate_triples(P)
    dd_out2,        \* deduplicate_triples(deduplicate_triples(X))
    dd_pc,          \* "idle" | "collecting" | "deduped" | "reordered" | "again"
    \* ---- one KnowledgeGraphPipeline.process_text run (it uses text, chunk_size,
    \*      overlap and chunks above: self.text_processor and the local chunks)
    mode,               \* "triples" | "jsonld": whether self.ontology_processor is set
    phase,              \* "idle" | "Init" | "Chunking" | "PerChunkExtraction" | "Merging" | "Done" | "Failed"
    next_chunk,         \* place in chunks of the next iteration of "for chunk in chunks"
    all_extracted_data, \* the local list
    failed_chunks,      \* the local list
    returned,           \* the returned tuple (success, result, error_message), or None
    responses,          \* history: what the LLM client was given and answered, per call
    merge_raised,       \* history: whether the merge step raised
    \* ---- one extract_from_chunk call of TripleExtractor or JSONLDExtractor
    ex_mode,              \* "triples" | "jsonld": the class of the extractor
    enable_validation,    \* config.extraction.enable_validation (JSON-LD)
    enable_normalization, \* config.extraction.enable_normalization (JSON-LD)
    ex_chunk,             \* chunk['chunk_number']
    ex_outcome,           \* history: what the API call of the client ended in
    ex_answer,            \* what llm_client.extract_triples returned, or None
    ex_seen,              \* history: the "@context" handed to the validator and normalizer
    ex_result,            \* the returned tuple (success, data, error), or None
    ex_pc,                \* "idle" | "called" | "answered" | "raised" | "returned"
    \* ---- the construction of the configuration, the extractor and the chunker
    cf_args,        \* the values the constructors are called with
    cf_built,       \* the classes of the objects constructed so far
    cf_error,       \* the message of the ValueError a constructor raised, or None
    cf_pc,          \* "idle" | "start" | "llm" | "text" | "extraction" | "Ready" | "Raised"
    \* ---- one extractor used on the chunks of a text: extract_from_chunk per chunk,
    \*      then process_results
    se_mode,                \* "triples" | "jsonld": the class of the extractor
    system_prompt,          \* self.llm_client.system_prompt
    se_order,               \* the chunk numbers still to be called, in call order
    se_calls,               \* history: the system prompt, response and result of each call
    se_all_extracted_data,  \* the data of the successful calls, appended by the caller
    se_failed_chunks,       \* {chunk_number, error} of the failed calls
    se_result,              \* what process_results returned, or None
    se_pc                   \* "idle" | "calls" | "done"

chunkVars == <<text, chunk_size, overlap, words, chunks, start_index,
               chunk_number, spans, ck_pc>>
normVars  == <<nt_in, nt_out, nt_pc>>
dedupVars == <<dd_in, dd_out, dd_perm, dd_perm_out, dd_out2, dd_pc>>
pipeVars  == <<mode, phase, next_chunk, all_extracted_data, failed_chunks, returned,
               responses, merge_raised>>
extrVars  == <<ex_mode, enable_validation, enable_normalization, ex_chunk, ex_outcome,
               ex_answer, ex_seen, ex_result, ex_pc>>
cfgVars   == <<cf_args, cf_built, cf_error, cf_pc>>
sessVars  == <<se_mode, system_prompt, se_order, se_calls, se_all_extracted_data,
               se_failed_chunks, se_result, se_pc>>
vars      == <<chunkVars, normVars, dedupVars, pipeVars, extrVars, cfgVars, sessVars>>

-----------------------------------------------------------------------------
(* Bounds of the model *)

\* most words in a text handed to split_into_chunks
MaxWords == 6
\* largest chunk_size tried (overlap ranges up to one more, for degenerate objects)
MaxChunkSize == 3
\* longest field value handed to normalize_triple
MaxStrLen == 4
\* longest list handed to deduplicate_triples
MaxTriples == 3
\* most words in a text handed to process_text
MaxRunWords == 3

-----------------------------------------------------------------------------
(* Python values and string methods *)

\* Python's None: a value equal to no dict, list or string of the model
None == [NoneType |-> TRUE]

Min(a, b) == IF a <= b THEN a ELSE b

\* characters str.isspace() holds of
Whitespace == {" ", "\n"}

\* c.lower() for one character
LowerChar(c) ==
    CASE c = "A" -> "a"
      [] c = "B" -> "b"
      [] c = "P" -> "p"
      [] OTHER   -> c

\* s.lower()
Lower(s) == [i \in 1..Len(s) |-> LowerChar(s[i])]

RECURSIVE LStrip(_)
\* s.lstrip()
LStrip(s) ==
    IF s = <<>> THEN <<>>
    ELSE IF Head(s) \in Whitespace THEN LStrip(Tail(s)) ELSE s

RECURSIVE RStrip(_)
\* s.rstrip()
RStrip(s) ==
    IF s = <<>> THEN <<>>
    ELSE IF s[Len(s)] \in Whitespace THEN RStrip(SubSeq(s, 1, Len(s) - 1)) ELSE s

\* s.strip()
Strip(s) == RStrip(LStrip(s))

\* the element of a one-element set; TheOnly({F(x) : x \in {v}}) is F(v) with v
\* evaluated once, as Python evaluates a value before it binds it to a name
TheOnly(S) == CHOOSE x \in S : TRUE

RECURSIVE SplitFrom(_, _, _)
\* the scan of s.split(): acc are the finished words, cur the word being read
SplitFrom(s, acc, cur) ==
    LET Scan(a) ==
            IF a[1] = <<>> THEN (IF a[3] = <<>> THEN a[2] ELSE Append(a[2], a[3]))
            ELSE IF Head(a[1]) \in Whitespace
                 THEN SplitFrom(Tail(a[1]), IF a[3] = <<>> THEN a[2] ELSE Append(a[2], a[3]), <<>>)
                 ELSE SplitFrom(Tail(a[1]), a[2], Append(a[3], Head(a[1])))
    IN  TheOnly({Scan(x) : x \in {<<s, acc, cur>>}})

\* s.split(): the maximal runs of non-whitespace characters
Split(s) == SplitFrom(s, <<>>, <<>>)

RECURSIVE Join(_)
\* " ".join(ws)
Join(ws) ==
    IF ws = <<>> THEN <<>>
    ELSE IF Len(ws) = 1 THEN ws[1]
    ELSE ws[1] \o <<" ">> \o Join(Tail(ws))

\* the bound of a slice, as Python clamps it: a negative bound counts from the end
SliceBound(i, n) == IF i < 0 THEN (IF i + n < 0 THEN 0 ELSE i + n) ELSE Min(i, n)

\* seq[a:b]
PySlice(seq, a, b) ==
    LET lo == SliceBound(a, Len(seq))
        hi == SliceBound(b, Len(seq))
    IN  IF lo >= hi THEN <<>> ELSE SubSeq(seq, lo + 1, hi)

-----------------------------------------------------------------------------
(* TextProcessor.__init__ and split_into_chunks *)

\* the three checks of TextProcessor.__init__: it raises ValueError unless they hold
ValidConfig(cs, ov) == cs > 0 /\ ov >= 0 /\ ov < cs

\* end_index of one iteration
EndIndex(start, cs, total) == Min(start + cs, total)

\* MakeChunk numbering the chunks from 0
MakeChunkZeroBased(ws, start, end, number) ==
    [text |-> Join(PySlice(ws, start, end)), chunk_number |-> number - 1]

\* the chunk dict appended by one iteration
MakeChunk(ws, start, end, number) ==
    [text |-> Join(PySlice(ws, start, end)), chunk_number |-> number]

\* NextStartIndex without the "ensure progress is made" correction
NextStartIndexUncorrected(start, end, cs, ov) == start + cs - ov

\* the start of the next chunk, after the "ensure progress is made" correction
NextStartIndex(start, end, cs, ov) ==
    LET next_start_index == start + cs - ov
    IN  IF next_start_index <= start THEN start + 1 ELSE next_start_index

\* the break inside "ensure progress is made"
ProgressBreak(start, end, cs, ov, total) ==
    start + cs - ov <= start /\ end = total

\* SafetyBreak one iteration early
SafetyBreakEarly(number, total) == number >= total

\* the safety break, tested with the incremented chunk_number
SafetyBreak(number, total) == number > total

\* the state of the loop: one record per iteration
LoopStep(st, ws, cs, ov) ==
    LET total == Len(ws)
        end   == EndIndex(st.start_index, cs, total)
        emitted == Append(st.chunks, MakeChunk(ws, st.start_index, end, st.chunk_number))
        sp    == Append(st.spans, <<st.start_index, end>>)
    IN  IF ProgressBreak(st.start_index, end, cs, ov, total)
        THEN [st EXCEPT !.chunks = emitted, !.spans = sp, !.running = FALSE]
        ELSE [start_index  |-> NextStartIndex(st.start_index, end, cs, ov),
              chunk_number |-> st.chunk_number + 1,
              chunks       |-> emitted,
              spans        |-> sp,
              running      |-> ~SafetyBreak(st.chunk_number + 1, total)]

\* the while condition
LoopCondition(st, ws) == st.running /\ st.start_index < Len(ws)

RECURSIVE RunLoop(_, _, _, _)
RunLoop(st, ws, cs, ov) ==
    LET Iterate(s) ==
            IF LoopCondition(s, ws) THEN RunLoop(LoopStep(s, ws, cs, ov), ws, cs, ov) ELSE s
    IN  TheOnly({Iterate(x) : x \in {st}})

\* split_into_chunks as a function of its input and the object's fields
SplitIntoChunks(t, cs, ov) ==
    LET Loop(ws) ==
            RunLoop([start_index |-> 0, chunk_number |-> 1, chunks |-> <<>>,
                     spans |-> <<>>, running |-> TRUE], ws, cs, ov).chunks
    IN  TheOnly({Loop(x) : x \in {Split(t)}})

-----------------------------------------------------------------------------
(* Texts of the model *)

Letters == <<"a", "b", "c", "d", "e", "f", "g", "h", "i", "j">>

\* the i-th word of a text: odd words have one letter, even words two
WordAt(i) ==
    LET c == Letters[((i - 1) % Len(Letters)) + 1]
    IN  IF i % 2 = 1 THEN <<c>> ELSE <<c, "A">>

RECURSIVE TextOf(_, _)
\* words 1..n, separated by sep
TextOf(n, sep) ==
    IF n = 0 THEN <<>>
    ELSE IF n = 1 THEN WordAt(1)
    ELSE TextOf(n - 1, sep) \o sep \o WordAt(n)

Separators == {<<" ">>, <<" ", "\n">>}
Paddings   == {<<>>, <<" ">>}

\* every text of at most MaxWords words, with or without surrounding whitespace
Texts ==
    {lead \o TextOf(n, sep) \o trail :
        n \in 0..MaxWords, sep \in Separators, lead \in Paddings, trail \in Paddings}

-----------------------------------------------------------------------------
(* Idle values of the parts a specification does not use *)

ChunkIdle ==
    /\ text = <<>> /\ chunk_size = 1 /\ overlap = 0 /\ words = <<>>
    /\ chunks = <<>> /\ start_index = 0 /\ chunk_number = 1 /\ spans = <<>>
    /\ ck_pc = "idle"

NormIdle == nt_in = None /\ nt_out = None /\ nt_pc = "idle"

DedupIdle ==
    /\ dd_in = <<>> /\ dd_out = <<>> /\ dd_perm = <<>> /\ dd_perm_out = <<>>
    /\ dd_out2 = <<>> /\ dd_pc = "idle"

PipeIdle ==
    /\ mode = "triples" /\ phase = "idle" /\ next_chunk = 1
    /\ all_extracted_data = <<>> /\ failed_chunks = <<>> /\ returned = None
    /\ responses = <<>> /\ merge_raised = FALSE

ExtrIdle ==
    /\ ex_mode = "idle" /\ enable_validation = TRUE /\ enable_normalization = TRUE
    /\ ex_chunk = 0 /\ ex_outcome = None /\ ex_answer = None /\ ex_seen = <<>>
    /\ ex_result = None
    /\ ex_pc = "idle"

CfgIdle == cf_args = None /\ cf_built = {} /\ cf_error = None /\ cf_pc = "idle"

SessIdle ==
    /\ se_mode = "idle" /\ system_prompt = "plain" /\ se_order = <<>> /\ se_calls = <<>>
    /\ se_all_extracted_data = <<>> /\ se_failed_chunks = <<>> /\ se_result = None
    /\ se_pc = "idle"

-----------------------------------------------------------------------------
(* Specification SpecChunk: one split_into_chunks call, iteration by iteration *)

\* the call: lines 78-82
InitChunk ==
    /\ text \in Texts
    /\ chunk_size \in (-1)..MaxChunkSize
    /\ overlap \in (-1)..(MaxChunkSize + 1)
    /\ words = Split(text)
    /\ chunks = <<>>
    /\ spans = <<>>
    /\ start_index = 0
    /\ chunk_number = 1
    /\ ck_pc = "loop"
    /\ NormIdle /\ DedupIdle /\ PipeIdle /\ ExtrIdle /\ CfgIdle /\ SessIdle

LoopState ==
    [start_index |-> start_index, chunk_number |-> chunk_number,
     chunks |-> chunks, spans |-> spans, running |-> TRUE]

\* one iteration of the while loop
ChunkIterate ==
    /\ ck_pc = "loop"
    /\ LoopCondition(LoopState, words)
    /\ LET st == LoopStep(LoopState, words, chunk_size, overlap)
       IN  /\ chunks' = st.chunks
           /\ spans' = st.spans
           /\ start_index' = st.start_index
           /\ chunk_number' = st.chunk_number
           /\ ck_pc' = IF st.running THEN "loop" ELSE "done"
    /\ UNCHANGED <<text, chunk_size, overlap, words, normVars, dedupVars, pipeVars, extrVars, cfgVars, sessVars>>

\* the while condition fails: return chunks
ChunkReturn ==
    /\ ck_pc = "loop"
    /\ ~LoopCondition(LoopState, words)
    /\ ck_pc' = "done"
    /\ UNCHANGED <<text, chunk_size, overlap, words, chunks, spans, start_index,
                   chunk_number, normVars, dedupVars, pipeVars, extrVars, cfgVars, sessVars>>

NextChunk == ChunkIterate \/ ChunkReturn

SpecChunk == InitChunk /\ [][NextChunk]_vars

\* the loop is run by one thread, which takes its next step whenever it has one
SpecChunkFair == InitChunk /\ [][NextChunk]_vars /\ WF_vars(NextChunk)

-----------------------------------------------------------------------------
(* TextProcessor.normalize_triple and deduplicate_triples *)

\* the keys normalize_triple requires
RequiredKeys == {"subject", "predicate", "object"}

\* the default of triple.get('chunk', 'unknown'); chunk numbers start at 1
Unknown == 0

\* subject and object: value.strip().lower()
CleanField(value) == Lower(Strip(value))

\* the predicate: strip().lower(), then ' '.join(predicate.split())
CleanPredicate(value) == Join(Split(Lower(Strip(value))))

\* normalize_triple(triple): the normalized dict, or None
NormalizeTriple(triple) ==
    IF ~(RequiredKeys \subseteq DOMAIN triple) THEN None
    ELSE LET subject   == CleanField(triple.subject)
             predicate == CleanPredicate(triple.predicate)
             object_   == CleanField(triple.object)
         IN  IF subject = <<>> \/ predicate = <<>> \/ object_ = <<>> THEN None
             ELSE [subject      |-> subject,
                   predicate    |-> predicate,
                   object       |-> object_,
                   source_chunk |-> IF "chunk" \in DOMAIN triple
                                    THEN triple.chunk ELSE Unknown]

\* TripleKey with the provenance in the key
TripleKeyWithChunk(normalized) ==
    <<normalized.subject, normalized.predicate, normalized.object,
      normalized.source_chunk>>

\* TripleKey without the object
TripleKeyWithoutObject(normalized) == <<normalized.subject, normalized.predicate>>

\* triple_key
TripleKey(normalized) ==
    <<normalized.subject, normalized.predicate, normalized.object>>

RECURSIVE DedupLoop(_, _, _)
\* the for loop of deduplicate_triples over the rest of the list
DedupLoop(rest, seen_triples, unique_triples) ==
    LET Iterate(a) ==
            LET Keep(normalized) ==
                    IF normalized = None
                    THEN DedupLoop(Tail(a.rest), a.seen_triples, a.unique_triples)
                    ELSE IF TripleKey(normalized) \in a.seen_triples
                         THEN DedupLoop(Tail(a.rest), a.seen_triples, a.unique_triples)
                         ELSE DedupLoop(Tail(a.rest),
                                        a.seen_triples \cup {TripleKey(normalized)},
                                        Append(a.unique_triples, normalized))
            IN  IF a.rest = <<>> THEN a.unique_triples
                ELSE TheOnly({Keep(x) : x \in {NormalizeTriple(Head(a.rest))}})
    IN  TheOnly({Iterate(x) : x \in {[rest |-> rest, seen_triples |-> seen_triples,
                                            unique_triples |-> unique_triples]}})

\* deduplicate_triples(triples)
DeduplicateTriples(triples) == DedupLoop(triples, {}, <<>>)

-----------------------------------------------------------------------------
(* Triples of the model *)

\* every string of at most n of these characters
StringsUpTo(n) == UNION {[1..k -> {"a", "A", " "}] : k \in 0..n}

\* a candidate triple as the response parser tags it
MkTriple(s, p, o, c) == [subject |-> s, predicate |-> p, object |-> o, chunk |-> c]

\* the dict d without key k
WithoutKey(d, k) == [x \in (DOMAIN d) \ {k} |-> d[x]]

\* arguments of normalize_triple: one field ranges over every string of the bound, the
\* other two over the short ones; a dict may lack one key
NormInputs ==
    LET long == StringsUpTo(MaxStrLen)
        short == StringsUpTo(1)
        full == {MkTriple(s, p, o, 1) : s \in long, p \in short, o \in short}
                \cup {MkTriple(s, p, o, 1) : s \in short, p \in long, o \in short}
                \cup {MkTriple(s, p, o, 1) : s \in short, p \in short, o \in long}
        few == {MkTriple(s, p, o, 1) : s \in short, p \in short, o \in short}
    IN  full \cup {WithoutKey(t, k) : t \in few, k \in RequiredKeys \cup {"chunk"}}

\* elements of the lists handed to deduplicate_triples: two spellings of one subject,
\* two objects, two chunks, and a triple whose object is blank
DedupInputs ==
    {MkTriple(s, <<"P">>, o, c) :
        s \in {<<"a">>, <<"A", " ">>}, o \in {<<"a">>, <<"B">>}, c \in {1, 2}}
    \cup {MkTriple(<<"a">>, <<"P">>, <<" ">>, 1)}

\* the permutations of 1..n
PermutationsOf(n) == {f \in [1..n -> 1..n] : \A i, j \in 1..n : f[i] = f[j] => i = j}

-----------------------------------------------------------------------------
(* Specification SpecNorm: one normalize_triple call *)

InitNorm ==
    /\ nt_in \in NormInputs
    /\ nt_out = None
    /\ nt_pc = "called"
    /\ ChunkIdle /\ DedupIdle /\ PipeIdle /\ ExtrIdle /\ CfgIdle /\ SessIdle

\* normalize_triple runs and returns
NormalizeCall ==
    /\ nt_pc = "called"
    /\ nt_out' = NormalizeTriple(nt_in)
    /\ nt_pc' = "returned"
    /\ UNCHANGED <<nt_in, chunkVars, dedupVars, pipeVars, extrVars, cfgVars, sessVars>>

NextNorm == NormalizeCall

SpecNorm == InitNorm /\ [][NextNorm]_vars

-----------------------------------------------------------------------------
(* Specification SpecDedup: a list is collected and deduplicated; the result  *)
(* is deduplicated again, or the list is deduplicated in another order        *)

InitDedup ==
    /\ dd_in = <<>>
    /\ dd_out = <<>>
    /\ dd_perm = <<>>
    /\ dd_perm_out = <<>>
    /\ dd_out2 = <<>>
    /\ dd_pc = "collecting"
    /\ ChunkIdle /\ NormIdle /\ PipeIdle /\ ExtrIdle /\ CfgIdle /\ SessIdle

\* all_extracted_data.extend(...): one more candidate triple in the list
Collect ==
    /\ dd_pc = "collecting"
    /\ Len(dd_in) < MaxTriples
    /\ \E t \in DedupInputs : dd_in' = Append(dd_in, t)
    /\ UNCHANGED <<dd_out, dd_perm, dd_perm_out, dd_out2, dd_pc, chunkVars, normVars, pipeVars, extrVars, cfgVars, sessVars>>

\* deduplicate_triples(X)
Deduplicate ==
    /\ dd_pc = "collecting"
    /\ dd_out' = DeduplicateTriples(dd_in)
    /\ dd_pc' = "deduped"
    /\ UNCHANGED <<dd_in, dd_perm, dd_perm_out, dd_out2, chunkVars, normVars, pipeVars, extrVars, cfgVars, sessVars>>

\* deduplicate_triples(P) for a permutation P of X
DeduplicateReordered ==
    /\ dd_pc = "deduped"
    /\ \E f \in PermutationsOf(Len(dd_in)) :
          LET p == [i \in 1..Len(dd_in) |-> dd_in[f[i]]]
          IN  /\ dd_perm' = p
              /\ dd_perm_out' = DeduplicateTriples(p)
    /\ dd_pc' = "reordered"
    /\ UNCHANGED <<dd_in, dd_out, dd_out2, chunkVars, normVars, pipeVars, extrVars, cfgVars, sessVars>>

\* deduplicate_triples(deduplicate_triples(X))
DeduplicateAgain ==
    /\ dd_pc = "deduped"
    /\ dd_out2' = DeduplicateTriples(dd_out)
    /\ dd_pc' = "again"
    /\ UNCHANGED <<dd_in, dd_out, dd_perm, dd_perm_out, chunkVars, normVars, pipeVars, extrVars, cfgVars, sessVars>>

NextDedup == Collect \/ Deduplicate \/ DeduplicateReordered \/ DeduplicateAgain

SpecDedup == InitDedup /\ [][NextDedup]_vars

-----------------------------------------------------------------------------
(* KnowledgeGraphPipeline.process_text and its collaborators *)

\* a str value that is not taken apart (an error message)
Str(s) == [str |-> s]

\* what llm_client.extract_triples returns on a failure: (False, None, message)
ClientFailure(msg) == [success |-> FALSE, data |-> None, error |-> Str(msg)]

\* what llm_client.extract_triples returns on success: (True, data, None)
ClientSuccess(data) == [success |-> TRUE, data |-> data, error |-> None]

\* the failures of the client: API error, timeout, undecodable JSON, JSON that is
\* neither a list nor a dict
ClientErrors ==
    [api_error   |-> "OpenAI API Error",
     timeout     |-> "Request timed out",
     empty       |-> "Empty response from LLM",
     undecodable |-> "JSON parsing error",
     scalar      |-> "Parsed JSON is not a list or expected dictionary wrapper"]

\* one member of the JSON array the LLM answered with: whether it is a JSON object, its
\* keys with their values, and the keys whose value is not a string
Item(is_dict, fields, nonstr) ==
    [is_dict |-> is_dict, fields |-> fields, nonstr |-> nonstr]

\* an item that is an object with three string values
StrItem(s, p, o) == Item(TRUE, [subject |-> s, predicate |-> p, object |-> o], {})

\* the test of the filter loop: isinstance(item, dict), the three keys, three str values
PassesFilter(item) ==
    /\ item.is_dict
    /\ RequiredKeys \subseteq DOMAIN item.fields
    /\ \A key \in RequiredKeys : key \notin item.nonstr

\* Tagged writing the number of the first chunk
TaggedAsFirst(item, k) ==
    [key \in (DOMAIN item.fields) \cup {"chunk"} |->
        IF key = "chunk" THEN 1 ELSE item.fields[key]]

\* item['chunk'] = chunk_number
Tagged(item, k) ==
    [key \in (DOMAIN item.fields) \cup {"chunk"} |->
        IF key = "chunk" THEN k ELSE item.fields[key]]

\* valid_triples: the items that pass the filter, tagged with the chunk number
ValidTriples(items, k) ==
    LET passed == SelectSeq(items, PassesFilter)
    IN  [i \in 1..Len(passed) |-> Tagged(passed[i], k)]

\* the JSON arrays the LLM answers with in a triples run
CandidateLists ==
    {<<>>,
     <<StrItem(<<"a">>, <<"P">>, <<"a">>)>>,
     <<StrItem(<<"A", " ">>, <<"P">>, <<"a">>)>>,
     <<StrItem(<<"a">>, <<"P">>, <<"a">>), StrItem(<<"a">>, <<"P">>, <<"B">>)>>,
     <<StrItem(<<"a">>, <<"P">>, <<"a">>),
       Item(TRUE, [subject |-> <<"a">>, predicate |-> <<"P">>], {})>>,
     <<StrItem(<<"a">>, <<"P">>, <<"a">>), StrItem(<<>>, <<"P">>, <<"a">>)>>}

\* triple lists the client returns for chunk k, every item tagged with k
TripleLists(k) == {ValidTriples(items, k) : items \in CandidateLists}

\* a key of a JSON-LD node with a literal value
Stmt(key, lit) == [key |-> key, lit |-> lit, node |-> <<>>]

\* a key of a JSON-LD node whose value is a node described in place
NestedStmt(key, n) == [key |-> key, lit |-> "", node |-> <<n>>]

\* a JSON-LD node: its "@id" and its other keys in the order of the JSON text
Node(id, stmts) == [id |-> id, stmts |-> stmts]

\* a decoded JSON value in JSON-LD mode: its Python type, whether a str decodes as JSON,
\* its "@context" ("absent", "llm" for one of the LLM's making, or "ontology"), whether
\* it has "@graph", the nodes of the graph, whether every term is in the ontology
\* context, and whether expand/compact succeeds on it
JsonValue(type, json_ok, context, has_graph, graph, terms_known, normalizable) ==
    [type |-> type, json_ok |-> json_ok, context |-> context, has_graph |-> has_graph,
     graph |-> graph, terms_known |-> terms_known, normalizable |-> normalizable]

\* the entity every chunk describes, with its keys in one order or the other
Marie(type_first) ==
    IF type_first
    THEN Node(1, <<Stmt("@type", "Person"), Stmt("name", "Marie Curie")>>)
    ELSE Node(1, <<Stmt("name", "Marie Curie"), Stmt("@type", "Person")>>)

\* the entity only chunk k describes
EntityOf(k) == Node(k + 1, <<Stmt("@type", "Discovery")>>)

\* Marie with the entity 0 described inside her node
MarieNesting ==
    Node(1, <<Stmt("@type", "Person"),
              NestedStmt("discovered", Node(0, <<Stmt("name", "Radium")>>))>>)

\* the values the client returns for chunk k in JSON-LD mode: entity 1 is described by
\* every chunk, entity k + 1 by chunk k only
JsonLdValues(k) ==
    {JsonValue("dict", TRUE, "llm", TRUE, <<Marie(TRUE), EntityOf(k)>>, TRUE, TRUE),
     JsonValue("dict", TRUE, "llm", TRUE, <<Marie(TRUE), EntityOf(k)>>, FALSE, TRUE),
     JsonValue("dict", TRUE, "llm", TRUE, <<Marie(TRUE), EntityOf(k)>>, TRUE, FALSE),
     JsonValue("dict", TRUE, "llm", FALSE, <<>>, TRUE, TRUE),
     JsonValue("str", TRUE, "llm", TRUE, <<Marie(FALSE), EntityOf(k)>>, TRUE, TRUE),
     JsonValue("str", FALSE, "absent", FALSE, <<>>, TRUE, TRUE),
     JsonValue("list", TRUE, "absent", FALSE, <<>>, TRUE, TRUE),
     JsonValue("dict", TRUE, "llm", TRUE, <<Marie(TRUE)>>, TRUE, TRUE),
     JsonValue("dict", TRUE, "llm", TRUE, <<MarieNesting, EntityOf(k)>>, TRUE, TRUE)}

\* what the API call of the client ends in: an error, or the text of the LLM
Outcome(kind, items, value) == [kind |-> kind, items |-> items, value |-> value]

\* every outcome of the API call for chunk k
LlmOutcomes(md, k) ==
    {Outcome(kind, <<>>, None) : kind \in {"api_error", "timeout", "undecodable"}}
    \cup (IF md = "jsonld"
          THEN {Outcome("jsonld", <<>>, d) : d \in JsonLdValues(k)}
          ELSE {Outcome("scalar", <<>>, None)}
               \cup {Outcome("list", items, None) : items \in CandidateLists})

\* a decoded JSON object: the object as an item, and its list-valued members in order
JsonObject(item, lists) == [item |-> item, lists |-> lists]

\* SingleList taking the first list of an object that has several
SingleListOrFirst(list_values) == Len(list_values) >= 1

\* len(list_values) == 1
SingleList(list_values) == Len(list_values) = 1

\* the triples branch for a decoded dict: a single triple object is wrapped in a list,
\* else the only list-valued member is taken, else the call fails
CoerceObject(object, k) ==
    IF RequiredKeys \subseteq DOMAIN object.item.fields
    THEN ClientSuccess(ValidTriples(<<object.item>>, k))
    ELSE IF SingleList(object.lists)
         THEN ClientSuccess(ValidTriples(object.lists[1], k))
         ELSE ClientFailure(
                  "JSON object received, but doesn't contain a single list of triples")

\* llm_client.extract_triples(user_prompt, k) for one outcome of the API call
ExtractTriples(md, outcome, k) ==
    IF outcome.kind \in DOMAIN ClientErrors
    THEN ClientFailure(ClientErrors[outcome.kind])
    ELSE IF outcome.kind = "jsonld"
         THEN ClientSuccess(outcome.value)
         ELSE IF outcome.kind = "object"
              THEN CoerceObject(outcome.value, k)
              ELSE ClientSuccess(ValidTriples(outcome.items, k))

\* every answer of llm_client.extract_triples(user_prompt, k)
ClientAnswers(md, k) == {ExtractTriples(md, outcome, k) : outcome \in LlmOutcomes(md, k)}

\* ontology_processor.validate_jsonld(data)
ValidateJsonld(d) == d.terms_known

\* jsonld.compact(expanded, self.context): the nodes keep their nesting; two or more
\* top-level nodes are put under "@graph", a single one becomes the document itself,
\* and the "@context" is the one compacted with
Compact(nodes) ==
    [context   |-> "ontology",
     has_graph |-> Len(nodes) >= 2,
     graph     |-> IF Len(nodes) >= 2 THEN nodes ELSE <<>>,
     node      |-> IF Len(nodes) = 1 THEN nodes ELSE <<>>]

\* ontology_processor.normalize_jsonld(data): the compacted document, or None
NormalizeJsonld(d) == IF d.normalizable THEN Compact(d.graph) ELSE None

\* RecordFailure replacing the list by the new entry
RecordFailureOverwrites(fc, k, error) == <<[chunk_number |-> k, error |-> error]>>

\* failed_chunks.append({'chunk_number': ..., 'error': ...})
RecordFailure(fc, k, error) == Append(fc, [chunk_number |-> k, error |-> error])

\* the two lists after validate_jsonld / normalize_jsonld on a decoded document
ValidateAndNormalize(d, k, aed, fc) ==
    IF ValidateJsonld(d)
    THEN IF NormalizeJsonld(d) # None
         THEN [all_extracted_data |-> Append(aed, NormalizeJsonld(d)),
               failed_chunks |-> fc]
         ELSE [all_extracted_data |-> aed,
               failed_chunks |-> RecordFailure(fc, k, Str("JSON-LD normalization failed"))]
    ELSE [all_extracted_data |-> aed,
          failed_chunks |-> RecordFailure(fc, k, Str("Invalid JSON-LD"))]

\* the body of "for chunk in chunks" after the client has answered
AfterAnswer(md, k, answer, aed, fc) ==
    IF answer.success
    THEN IF md = "jsonld"
         THEN IF answer.data.type = "dict" /\ answer.data.has_graph
              THEN ValidateAndNormalize(answer.data, k, aed, fc)
              ELSE IF answer.data.type = "str"
                   THEN IF answer.data.json_ok
                        THEN ValidateAndNormalize(answer.data, k, aed, fc)
                        ELSE [all_extracted_data |-> aed,
                              failed_chunks |-> RecordFailure(fc, k, Str("Invalid JSON"))]
                   ELSE [all_extracted_data |-> aed,
                         failed_chunks |->
                             RecordFailure(fc, k, Str("Unexpected data format"))]
         ELSE [all_extracted_data |-> aed \o answer.data, failed_chunks |-> fc]
    ELSE [all_extracted_data |-> aed,
          failed_chunks |-> RecordFailure(fc, k, answer.error)]

\* AdvanceChunk sending a chunk again when its call failed
AdvanceChunkRetrying(n, answer) == IF answer.success THEN n + 1 ELSE n

\* the for loop takes the next chunk, whatever the answer for this one was
AdvanceChunk(n, answer) == n + 1

\* LoopFinished after the first chunk
LoopFinishedAfterFirst(n, cs) == n > 1

\* "for chunk in chunks" has no chunk left
LoopFinished(n, cs) == n > Len(cs)

RECURSIVE MergedGraph(_)
\* merged_data["@graph"]: the graphs of the documents that have "@graph", in order
MergedGraph(aed) ==
    LET Extend(a) ==
            IF a = <<>> THEN <<>>
            ELSE (IF Head(a).has_graph THEN Head(a).graph ELSE <<>>) \o MergedGraph(Tail(a))
    IN  TheOnly({Extend(x) : x \in {aed}})

\* an RDF triple: the object is a literal, or a reference to the subject ref
Triple(s, p, lit, ref) == [s |-> s, p |-> p, lit |-> lit, ref |-> ref]

NoRef == -1

\* the triples whose subject is node n
NodeTriples(n) ==
    {IF n.stmts[i].node = <<>>
     THEN Triple(n.id, n.stmts[i].key, n.stmts[i].lit, NoRef)
     ELSE Triple(n.id, n.stmts[i].key, "", n.stmts[i].node[1].id) : i \in DOMAIN n.stmts}

\* the nodes described inside node n
NestedNodes(n) == {n.stmts[i].node[1] : i \in {j \in DOMAIN n.stmts : n.stmts[j].node # <<>>}}

\* g.parse(data=json.dumps(jsonld_data), format='json-ld'): the set of triples of the
\* top-level nodes and of the nodes described inside them
ToRdf(g) ==
    UNION {NodeTriples(g[i]) \cup UNION {NodeTriples(m) : m \in NestedNodes(g[i])} :
           i \in DOMAIN g}

\* from_rdf(g, context)["@graph"]: one top-level node for every subject, holding all
\* the statements about it, here in the order of the subjects
FromRdf(triples) ==
    LET NodeOf(s, ts) ==
            [id |-> s,
             stmts |-> {[p |-> t.p, lit |-> t.lit, ref |-> t.ref] :
                        t \in {u \in ts : u.s = s}}]
        Nodes(ts, subjects) ==
            [i \in 1..Cardinality(subjects) |->
                TheOnly({NodeOf(s, ts) :
                         s \in {u \in subjects :
                                   Cardinality({v \in subjects : v < u}) = i - 1}})]
    IN  TheOnly({TheOnly({Nodes(ts, subjects) : subjects \in {{t.s : t \in ts}}}) :
                 ts \in {triples}})

\* _normalize_jsonld_through_rdf when it does not raise
RdfRoundTrip(g) == FromRdf(ToRdf(g))

\* the result dict of a triples run
TriplesResult(cs, aed, fc) ==
    LET normalized_triples == DeduplicateTriples(aed)
    IN  [triples |-> normalized_triples,
         statistics |-> [total_chunks     |-> Len(cs),
                         processed_chunks |-> Len(cs) - Len(fc),
                         failed_chunks    |-> Len(fc),
                         total_triples    |-> Len(aed),
                         unique_triples   |-> Len(normalized_triples)],
         failed_chunks |-> fc]

\* the result dict of a JSON-LD run
JsonLdResult(cs, aed, fc) ==
    LET Result(merged, normalized_data) ==
            [jsonld |-> [context |-> "ontology", graph |-> normalized_data],
             statistics |-> [total_chunks      |-> Len(cs),
                             processed_chunks  |-> Len(cs) - Len(fc),
                             failed_chunks     |-> Len(fc),
                             total_entities    |-> Len(normalized_data),
                             original_entities |-> Len(merged),
                             duplicates_removed |-> Len(merged) - Len(normalized_data)],
             failed_chunks |-> fc]
    IN  TheOnly({TheOnly({Result(merged, normalized_data) :
                          normalized_data \in {RdfRoundTrip(merged)}}) :
                 merged \in {MergedGraph(aed)}})

\* return True, result, None
ReturnSuccess(result) == [success |-> TRUE, result |-> result, error |-> None]

\* return False, None, message
ReturnFailure(msg) == [success |-> FALSE, result |-> None, error |-> Str(msg)]

-----------------------------------------------------------------------------
(* Specification SpecPipeline: one process_text run *)

\* the chunk sizes and overlaps of the pipeline's text processor, scaled to the texts
PipelineConfigs == {<<1, 0>>, <<2, 0>>, <<2, 1>>}

\* the texts handed to process_text: up to MaxRunWords words, or only whitespace
PipelineTexts == {TextOf(n, <<" ">>) : n \in 0..MaxRunWords} \cup {<<" ", "\n">>}

InitPipeline ==
    /\ mode \in {"triples", "jsonld"}
    /\ text \in PipelineTexts
    /\ \E c \in PipelineConfigs : chunk_size = c[1] /\ overlap = c[2]
    /\ phase = "Init"
    /\ chunks = <<>>
    /\ next_chunk = 1
    /\ all_extracted_data = <<>>
    /\ failed_chunks = <<>>
    /\ returned = None
    /\ responses = <<>>
    /\ merge_raised = FALSE
    /\ words = <<>> /\ start_index = 0 /\ chunk_number = 1 /\ spans = <<>>
    /\ ck_pc = "idle"
    /\ NormIdle /\ DedupIdle /\ ExtrIdle /\ CfgIdle /\ SessIdle

\* NoChunksCreated going on with an empty list of chunks
NoChunksCreatedIgnored(cs) == FALSE

\* "if not chunks"
NoChunksCreated(cs) == cs = <<>>

\* 1. chunks = self.text_processor.split_into_chunks(text)
SplitText ==
    /\ phase = "Init"
    /\ chunks' = SplitIntoChunks(text, chunk_size, overlap)
    /\ phase' = "Chunking"
    /\ UNCHANGED <<text, chunk_size, overlap, words, start_index, chunk_number, spans,
                   ck_pc, mode, next_chunk, all_extracted_data, failed_chunks, returned,
                   responses, merge_raised, normVars, dedupVars, extrVars, cfgVars, sessVars>>

\* if not chunks: return False, None, "No chunks were created from the input text"
NoChunks ==
    /\ phase = "Chunking"
    /\ NoChunksCreated(chunks)
    /\ returned' = ReturnFailure("No chunks were created from the input text")
    /\ phase' = "Failed"
    /\ UNCHANGED <<chunkVars, mode, next_chunk, all_extracted_data, failed_chunks,
                   responses, merge_raised, normVars, dedupVars, extrVars, cfgVars, sessVars>>

\* 2. all_extracted_data = []; failed_chunks = []; the loop is entered
BeginExtraction ==
    /\ phase = "Chunking"
    /\ ~NoChunksCreated(chunks)
    /\ all_extracted_data' = <<>>
    /\ failed_chunks' = <<>>
    /\ next_chunk' = 1
    /\ phase' = "PerChunkExtraction"
    /\ UNCHANGED <<chunkVars, mode, returned, responses, merge_raised, normVars,
                   dedupVars, extrVars, cfgVars, sessVars>>

\* one iteration of "for chunk in chunks": the client call and what follows it
ProcessChunk ==
    /\ phase = "PerChunkExtraction"
    /\ ~LoopFinished(next_chunk, chunks)
    /\ LET k == chunks[next_chunk].chunk_number
       IN  \E outcome \in LlmOutcomes(mode, k) : \E answer \in {ExtractTriples(mode, outcome, k)} :
              \E after \in {AfterAnswer(mode, k, answer, all_extracted_data, failed_chunks)} :
                  /\ all_extracted_data' = after.all_extracted_data
                  /\ failed_chunks' = after.failed_chunks
                  /\ responses' = Append(responses, [chunk_number |-> k,
                                                     candidates |-> outcome.items,
                                                     answer |-> answer])
                  /\ next_chunk' = AdvanceChunk(next_chunk, answer)
    /\ UNCHANGED <<chunkVars, mode, phase, returned, merge_raised, normVars, dedupVars, extrVars, cfgVars, sessVars>>

\* the loop is left: 3. Prepare results
BeginMerge ==
    /\ phase = "PerChunkExtraction"
    /\ LoopFinished(next_chunk, chunks)
    /\ phase' = "Merging"
    /\ UNCHANGED <<chunkVars, mode, next_chunk, all_extracted_data, failed_chunks,
                   returned, responses, merge_raised, normVars, dedupVars, extrVars, cfgVars, sessVars>>

\* the triples branch: deduplicate, build the result, return True, result, None
MergeTriples ==
    /\ phase = "Merging"
    /\ mode = "triples"
    /\ returned' = ReturnSuccess(TriplesResult(chunks, all_extracted_data, failed_chunks))
    /\ phase' = "Done"
    /\ UNCHANGED <<chunkVars, mode, next_chunk, all_extracted_data, failed_chunks,
                   responses, merge_raised, normVars, dedupVars, extrVars, cfgVars, sessVars>>

\* the JSON-LD branch when the RDF round trip succeeds
MergeJsonLd ==
    /\ phase = "Merging"
    /\ mode = "jsonld"
    /\ returned' = ReturnSuccess(JsonLdResult(chunks, all_extracted_data, failed_chunks))
    /\ phase' = "Done"
    /\ UNCHANGED <<chunkVars, mode, next_chunk, all_extracted_data, failed_chunks,
                   responses, merge_raised, normVars, dedupVars, extrVars, cfgVars, sessVars>>

\* the JSON-LD branch when the RDF round trip raises: the exception reaches
\* "except Exception as e: return False, None, f'Pipeline error: ...'"
MergeJsonLdRaises ==
    /\ phase = "Merging"
    /\ mode = "jsonld"
    /\ merge_raised' = TRUE
    /\ returned' = ReturnFailure("Pipeline error")
    /\ phase' = "Failed"
    /\ UNCHANGED <<chunkVars, mode, next_chunk, all_extracted_data, failed_chunks,
                   responses, normVars, dedupVars, extrVars, cfgVars, sessVars>>

NextPipeline ==
    \/ SplitText
    \/ NoChunks
    \/ BeginExtraction
    \/ ProcessChunk
    \/ BeginMerge
    \/ MergeTriples
    \/ MergeJsonLd
    \/ MergeJsonLdRaises

SpecPipeline == InitPipeline /\ [][NextPipeline]_vars

\* process_text runs in one thread and every client call returns: the run takes its
\* next step whenever it has one
SpecPipelineFair == InitPipeline /\ [][NextPipeline]_vars /\ WF_vars(NextPipeline)

-----------------------------------------------------------------------------
(* The extractors: TripleExtractor and JSONLDExtractor, extract_from_chunk *)

\* the tuple extract_from_chunk returns
ExtractResult(success, data, error) ==
    [success |-> success, data |-> data, error |-> error]

\* TripleExtractor.validate_data(data): the client hands over a list of dicts whose
\* values are strings, so of the four tests the required fields and the empty values
\* can fail
ValidateTripleData(data) ==
    \A i \in 1..Len(data) :
        /\ RequiredKeys \subseteq DOMAIN data[i]
        /\ \A field \in RequiredKeys : Strip(data[i][field]) # <<>>

\* InvalidBatch handing the batch on as a success
InvalidBatchReturned(data, k) == ExtractResult(TRUE, data, None)

\* return False, [], "Invalid triple data from chunk k"
InvalidBatch(data, k) == ExtractResult(FALSE, <<>>, Str("Invalid triple data from chunk"))

\* TripleExtractor.extract_from_chunk after the client has answered
TripleExtractFromAnswer(answer, k) ==
    IF answer.success
    THEN IF ValidateTripleData(answer.data)
         THEN ExtractResult(TRUE, answer.data, None)
         ELSE InvalidBatch(answer.data, k)
    ELSE ExtractResult(FALSE, <<>>, answer.error)

\* a JSON-LD document as a dict: its "@context", whether it has "@graph" and the nodes
\* under it, and the node whose keys are the top-level keys of the document
Document(context, has_graph, graph, node) ==
    [context |-> context, has_graph |-> has_graph, graph |-> graph, node |-> node]

\* {}
EmptyDict == Document("absent", FALSE, <<>>, <<>>)

\* the dict the extractor holds for a decoded value of the client
AsDocument(d) == Document(d.context, d.has_graph, d.graph, <<>>)

\* FixLlmContext leaving the "@context" of the LLM in place
FixLlmContextKeeping(d) == d

\* _fix_llm_context: fixed_data["@context"] = correct_context["@context"]
FixLlmContext(d) == [d EXCEPT !.context = "ontology"]

\* _validate_jsonld
ExtractorValidateJsonld(ev, d) == ~ev \/ ValidateJsonld(d)

\* _normalize_jsonld
ExtractorNormalizeJsonld(en, d) == IF ~en THEN AsDocument(d) ELSE NormalizeJsonld(d)

\* one call of the validator or the normalizer and the "@context" of its argument
Seen(step, d) == [step |-> step, context |-> d.context]

\* "if normalized:"
Truthy(doc) == doc # None /\ doc # EmptyDict

\* the steps of _process_extracted_data on a document that has "@graph"
FixValidateNormalize(d, ev, en) ==
    TheOnly({IF ExtractorValidateJsonld(ev, fixed)
             THEN TheOnly({[result |-> IF Truthy(normalized) THEN normalized ELSE None,
                            seen   |-> <<Seen("validate", fixed),
                                         Seen("normalize", fixed)>>] :
                           normalized \in {ExtractorNormalizeJsonld(en, fixed)}})
             ELSE [result |-> None, seen |-> <<Seen("validate", fixed)>>] :
             fixed \in {FixLlmContext(d)}})

\* _process_extracted_data(data, chunk_number): the processed document or None, and the
\* calls it made
ProcessExtractedData(data, ev, en) ==
    IF data.type = "dict" /\ data.has_graph
    THEN FixValidateNormalize(data, ev, en)
    ELSE IF data.type = "str" /\ data.json_ok /\ data.has_graph
         THEN FixValidateNormalize(data, ev, en)
         ELSE [result |-> None, seen |-> <<>>]

\* JSONLDExtractor.extract_from_chunk after the client has answered
JsonLdExtractFromAnswer(answer, k, ev, en) ==
    IF answer.success
    THEN TheOnly({[result |-> IF processed.result # None
                              THEN ExtractResult(TRUE, processed.result, None)
                              ELSE ExtractResult(FALSE, EmptyDict,
                                       Str("Failed to process JSON-LD data from chunk")),
                   seen   |-> processed.seen] :
                  processed \in {ProcessExtractedData(answer.data, ev, en)}})
    ELSE [result |-> ExtractResult(FALSE, EmptyDict, answer.error), seen |-> <<>>]

\* JSONLDExtractor.validate_data(data)
ValidateJsonLdData(data) == data.has_graph

\* the "except Exception" clause of extract_from_chunk
ExceptResult(md) ==
    ExtractResult(FALSE, IF md = "triples" THEN <<>> ELSE EmptyDict,
                  Str("Error processing chunk"))

-----------------------------------------------------------------------------
(* Specification SpecExtract: one extract_from_chunk call *)

\* the chunk numbers of the chunks handed to extract_from_chunk
MaxChunkNumber == 2

\* the "@context" the LLM puts into its document: none, its own, the ontology's
LlmContexts == {"absent", "llm", "ontology"}

\* the JSON objects the LLM answers with in triples mode: a triple (also with a member
\* that is a list, or with a value that is no string), an object with only two of the
\* keys; each with no, one, two or three list-valued members
JsonObjects ==
    LET a == <<"a">>
        P == <<"P">>
        triples == <<StrItem(a, P, a), StrItem(<<"A", " ">>, P, a)>>
        items == {StrItem(a, P, a),
                  Item(TRUE, [subject |-> a, predicate |-> P, object |-> a], {"object"}),
                  Item(TRUE, [subject |-> a, predicate |-> P], {}),
                  Item(TRUE, [triples |-> a], {"triples"})}
        lists == {<<>>, <<triples>>, <<triples, <<>>>>, <<<<>>, triples, triples>>}
    IN  {JsonObject(item, ls) : item \in items, ls \in lists}

\* every outcome of the API call for chunk k: the documents with each "@context", and
\* in triples mode the empty response and the JSON objects
ExtractorOutcomes(md, k) ==
    LlmOutcomes(md, k)
    \cup (IF md = "jsonld"
          THEN {Outcome("jsonld", <<>>, [d EXCEPT !.context = c]) :
                    d \in {v \in JsonLdValues(k) : v.has_graph}, c \in LlmContexts}
          ELSE {Outcome("empty", <<>>, None)}
               \cup {Outcome("object", <<>>, object) : object \in JsonObjects})

InitExtract ==
    /\ ex_mode \in {"triples", "jsonld"}
    /\ enable_validation \in BOOLEAN
    /\ enable_normalization \in BOOLEAN
    /\ ex_chunk \in 1..MaxChunkNumber
    /\ ex_outcome = None
    /\ ex_answer = None
    /\ ex_seen = <<>>
    /\ ex_result = None
    /\ ex_pc = "called"
    /\ ChunkIdle /\ NormIdle /\ DedupIdle /\ PipeIdle /\ CfgIdle /\ SessIdle

\* the prompts are formatted and llm_client.extract_triples(user_prompt, k) answers
ExtractCall ==
    /\ ex_pc = "called"
    /\ \E outcome \in ExtractorOutcomes(ex_mode, ex_chunk) :
           /\ ex_outcome' = outcome
           /\ ex_answer' = ExtractTriples(ex_mode, outcome, ex_chunk)
    /\ ex_pc' = "answered"
    /\ UNCHANGED <<ex_mode, enable_validation, enable_normalization, ex_chunk, ex_seen,
                   ex_result, chunkVars, normVars, dedupVars, pipeVars, cfgVars, sessVars>>

\* a statement of the try block raises: the template has a field the call of format
\* does not give
ExtractRaise ==
    /\ ex_pc = "called"
    /\ ex_pc' = "raised"
    /\ UNCHANGED <<ex_mode, enable_validation, enable_normalization, ex_chunk,
                   ex_outcome, ex_answer, ex_seen, ex_result,
                   chunkVars, normVars, dedupVars, pipeVars, cfgVars, sessVars>>

\* except Exception as e: return False, [] or {}, "Error processing chunk k: ..."
ExtractExcept ==
    /\ ex_pc = "raised"
    /\ ex_result' = ExceptResult(ex_mode)
    /\ ex_pc' = "returned"
    /\ UNCHANGED <<ex_mode, enable_validation, enable_normalization, ex_chunk,
                   ex_outcome, ex_answer, ex_seen,
                   chunkVars, normVars, dedupVars, pipeVars, cfgVars, sessVars>>

\* the rest of the try block: the answer is validated or processed and the tuple returned
ExtractReturn ==
    /\ ex_pc = "answered"
    /\ IF ex_mode = "triples"
       THEN /\ \E result \in {TripleExtractFromAnswer(ex_answer, ex_chunk)} :
                   ex_result' = result
            /\ UNCHANGED ex_seen
       ELSE \E r \in {JsonLdExtractFromAnswer(ex_answer, ex_chunk, enable_validation,
                                              enable_normalization)} :
                /\ ex_result' = r.result
                /\ ex_seen' = r.seen
    /\ ex_pc' = "returned"
    /\ UNCHANGED <<ex_mode, enable_validation, enable_normalization, ex_chunk,
                   ex_outcome, ex_answer, chunkVars, normVars, dedupVars, pipeVars, cfgVars, sessVars>>

NextExtract == ExtractCall \/ ExtractRaise \/ ExtractExcept \/ ExtractReturn

SpecExtract == InitExtract /\ [][NextExtract]_vars

\* extract_from_chunk runs in the caller's thread and the client call returns or
\* raises: the call takes its next step whenever it has one
SpecExtractFair == InitExtract /\ [][NextExtract]_vars /\ WF_vars(NextExtract)

-----------------------------------------------------------------------------
(* The constructors: configuration.py, the extractors and TextProcessor *)

\* LLMConfig.__post_init__ for a temperature and max_tokens in range
LLMConfigError(provider) ==
    IF provider \notin {"openai", "anthropic"}
    THEN Str("Unsupported LLM provider")
    ELSE None

\* TextProcessingConfig.__post_init__
TextProcessingConfigError(cs, ov) ==
    IF cs <= 0 THEN Str("Chunk size must be positive")
    ELSE IF ov < 0 THEN Str("Chunk overlap cannot be negative")
    ELSE IF ov >= cs THEN Str("Chunk overlap must be smaller than chunk size")
    ELSE None

\* ExtractionConfig.__post_init__
ExtractionConfigError(extraction_mode, ontology_path) ==
    IF extraction_mode \notin {"triples", "jsonld"}
    THEN Str("Unsupported extraction mode")
    ELSE IF extraction_mode = "jsonld" /\ ontology_path = None
         THEN Str("Ontology path is required for JSON-LD extraction mode")
         ELSE None

\* TextProcessorError accepting an overlap equal to the chunk size
TextProcessorErrorLax(cs, ov) ==
    IF cs <= 0 THEN Str("Chunk size must be positive")
    ELSE IF ov < 0 THEN Str("Overlap cannot be negative")
    ELSE IF ov > cs THEN Str("Overlap must be smaller than chunk size")
    ELSE None

\* TextProcessor.__init__: the ValueError it raises, or None
TextProcessorError(cs, ov) ==
    IF cs <= 0 THEN Str("Chunk size must be positive")
    ELSE IF ov < 0 THEN Str("Overlap cannot be negative")
    ELSE IF ov >= cs THEN Str("Overlap must be smaller than chunk size")
    ELSE None

\* JSONLDExtractor.__init__ for an ontology file that loads
JSONLDExtractorError(ontology_path) ==
    IF ontology_path = None
    THEN Str("Ontology path is required for JSON-LD extraction")
    ELSE None

\* ExtractorFactory.create_extractor: the class of the extractor
ExtractorClass(extraction_mode) ==
    IF extraction_mode = "triples" THEN "TripleExtractor" ELSE "JSONLDExtractor"

-----------------------------------------------------------------------------
(* Specification SpecConfig: the objects are constructed, then the chunker is used *)

\* the values of LLM_PROVIDER
Providers == {"openai", "anthropic", "cohere"}

\* the values of EXTRACTION_MODE
ExtractionModes == {"triples", "jsonld", "rdf"}

\* the values of ONTOLOGY_PATH: not set, or the path of an ontology file
OntologyPaths == {None, Str("ontology.owl")}

\* the arguments of the constructors: chunk sizes and overlaps from -1 up
ConstructorArgs ==
    [provider        : Providers,
     chunk_size      : (-1)..MaxChunkSize,
     chunk_overlap   : (-1)..(MaxChunkSize + 1),
     extraction_mode : ExtractionModes,
     ontology_path   : OntologyPaths]

InitConfig ==
    /\ cf_args \in ConstructorArgs
    /\ cf_built = {}
    /\ cf_error = None
    /\ cf_pc = "start"
    /\ ChunkIdle /\ NormIdle /\ DedupIdle /\ PipeIdle /\ ExtrIdle /\ SessIdle

\* a constructor raised: no object, the ValueError goes to the caller
Raise(error) == cf_error' = error /\ cf_pc' = "Raised" /\ UNCHANGED cf_built

\* a constructor returned its object
Built(class, pc) == cf_built' = cf_built \cup {class} /\ cf_pc' = pc /\ UNCHANGED cf_error

\* llm_config = LLMConfig(provider=...)
ConstructLLMConfig ==
    /\ cf_pc = "start"
    /\ \E error \in {LLMConfigError(cf_args.provider)} :
           IF error # None THEN Raise(error) ELSE Built("LLMConfig", "llm")
    /\ UNCHANGED <<cf_args, chunkVars, normVars, dedupVars, pipeVars, extrVars, sessVars>>

\* text_config = TextProcessingConfig(chunk_size=..., chunk_overlap=...)
ConstructTextProcessingConfig ==
    /\ cf_pc = "llm"
    /\ \E error \in {TextProcessingConfigError(cf_args.chunk_size, cf_args.chunk_overlap)} :
           IF error # None THEN Raise(error) ELSE Built("TextProcessingConfig", "text")
    /\ UNCHANGED <<cf_args, chunkVars, normVars, dedupVars, pipeVars, extrVars, sessVars>>

\* extraction_config = ExtractionConfig(extraction_mode=..., ontology_path=...)
ConstructExtractionConfig ==
    /\ cf_pc = "text"
    /\ \E error \in {ExtractionConfigError(cf_args.extraction_mode,
                                           cf_args.ontology_path)} :
           IF error # None THEN Raise(error) ELSE Built("ExtractionConfig", "extraction")
    /\ UNCHANGED <<cf_args, chunkVars, normVars, dedupVars, pipeVars, extrVars, sessVars>>

\* the object gets its fields: self.chunk_size = chunk_size; self.overlap = overlap
BuiltTextProcessor(classes) ==
    /\ cf_built' = cf_built \cup classes \cup {"TextProcessor"}
    /\ cf_pc' = "Ready"
    /\ chunk_size' = cf_args.chunk_size
    /\ overlap' = cf_args.chunk_overlap
    /\ UNCHANGED <<cf_error, text, words, chunks, start_index, chunk_number, spans, ck_pc, sessVars>>

\* ExtractorFactory.create_extractor_from_config(llm_client, config): TripleExtractor
\* constructs its TextProcessor from the configuration, JSONLDExtractor tests the path
CreateExtractor ==
    /\ cf_pc = "extraction"
    /\ IF ExtractorClass(cf_args.extraction_mode) = "TripleExtractor"
       THEN \E error \in {TextProcessorError(cf_args.chunk_size, cf_args.chunk_overlap)} :
                IF error # None
                THEN Raise(error) /\ UNCHANGED chunkVars
                ELSE BuiltTextProcessor({"TripleExtractor"})
       ELSE /\ \E error \in {JSONLDExtractorError(cf_args.ontology_path)} :
                  IF error # None THEN Raise(error) ELSE Built("JSONLDExtractor", "Ready")
            /\ UNCHANGED chunkVars
    /\ UNCHANGED <<cf_args, normVars, dedupVars, pipeVars, extrVars, sessVars>>

\* TextProcessor(chunk_size, overlap) called by a user of the class
ConstructTextProcessor ==
    /\ cf_pc = "start"
    /\ \E error \in {TextProcessorError(cf_args.chunk_size, cf_args.chunk_overlap)} :
           IF error # None
           THEN Raise(error) /\ UNCHANGED chunkVars
           ELSE BuiltTextProcessor({})
    /\ UNCHANGED <<cf_args, normVars, dedupVars, pipeVars, extrVars, sessVars>>

\* split_into_chunks(text) is called on the chunker: lines 78-82
SplitCall ==
    /\ cf_pc = "Ready"
    /\ "TextProcessor" \in cf_built
    /\ ck_pc = "idle"
    /\ \E t \in PipelineTexts :
           /\ text' = t
           /\ words' = Split(t)
    /\ chunks' = <<>>
    /\ spans' = <<>>
    /\ start_index' = 0
    /\ chunk_number' = 1
    /\ ck_pc' = "loop"
    /\ UNCHANGED <<chunk_size, overlap, cfgVars, normVars, dedupVars, pipeVars, extrVars, sessVars>>

NextConfig ==
    \/ ConstructLLMConfig
    \/ ConstructTextProcessingConfig
    \/ ConstructExtractionConfig
    \/ CreateExtractor
    \/ ConstructTextProcessor
    \/ SplitCall
    \/ ChunkIterate
    \/ ChunkReturn

SpecConfig == InitConfig /\ [][NextConfig]_vars

-----------------------------------------------------------------------------
(* An extractor used on the chunks of a text: extract_from_chunk, process_results *)

\* the system prompt the client is constructed with: a text with no replacement field,
\* as JSONLD_SYSTEM_PROMPT, or a template with the field {context}
SystemPrompts == {"plain", "with_context"}

\* system_prompt.format(**prompt_vars) raises: the text is the formatted template, which
\* holds the braces of json.dumps(self.ontology_context)
FormatRaises(prompt) == prompt = "formatted"

\* self.llm_client.system_prompt = system_prompt.format(**prompt_vars)
FormattedPrompt(prompt) == IF prompt = "with_context" THEN "formatted" ELSE prompt

\* extract_from_chunk of the extractor of class md for one outcome of the API call
ExtractFromChunk(md, outcome, k, ev, en) ==
    IF md = "triples"
    THEN TripleExtractFromAnswer(ExtractTriples(md, outcome, k), k)
    ELSE JsonLdExtractFromAnswer(ExtractTriples(md, outcome, k), k, ev, en).result

RECURSIVE Flatten(_)
\* all_triples: the lists of the chunks, one after the other
Flatten(lists) == IF lists = <<>> THEN <<>> ELSE Head(lists) \o Flatten(Tail(lists))

\* TripleExtractor.process_results, the try block
TripleProcessResults(aed, fc) ==
    TheOnly({TheOnly({[triples |-> normalized_triples,
                       statistics |->
                           [total_chunks       |-> Len(aed) + Len(fc),
                            processed_chunks   |-> Len(aed),
                            failed_chunks      |-> Len(fc),
                            total_triples      |-> Len(all_triples),
                            unique_triples     |-> Len(normalized_triples),
                            duplicates_removed |-> Len(all_triples) - Len(normalized_triples)],
                       failed_chunks |-> fc] :
                      normalized_triples \in {DeduplicateTriples(all_triples)}}) :
             all_triples \in {Flatten(aed)}})

\* JSONLDExtractor.process_results, the try block
JsonLdProcessResults(aed, fc) ==
    TheOnly({TheOnly({[jsonld |-> [context |-> "ontology", graph |-> normalized_data],
                       statistics |->
                           [total_chunks       |-> Len(aed) + Len(fc),
                            processed_chunks   |-> Len(aed),
                            failed_chunks      |-> Len(fc),
                            total_entities     |-> Len(normalized_data),
                            original_entities  |-> Len(merged),
                            duplicates_removed |-> Len(merged) - Len(normalized_data)],
                       failed_chunks |-> fc] :
                      normalized_data \in {RdfRoundTrip(merged)}}) :
             merged \in {MergedGraph(aed)}})

\* JSONLDExtractor.process_results, the except clause: the entry it adds has the key
\* 'error' only
JsonLdProcessResultsExcept(aed, fc) ==
    [jsonld |-> [context |-> "ontology", graph |-> <<>>],
     statistics |-> [total_chunks       |-> Len(aed) + Len(fc),
                     processed_chunks   |-> 0,
                     failed_chunks      |-> Len(aed) + Len(fc),
                     total_entities     |-> 0,
                     original_entities  |-> 0,
                     duplicates_removed |-> 0],
     failed_chunks |-> Append(fc, [error |-> Str("Processing error")])]

-----------------------------------------------------------------------------
(* Specification SpecSession: the calls of one extractor for the chunks of a text *)

\* the orders in which the chunks 1..n are handed to extract_from_chunk
Orders(n) == {o \in [1..n -> 1..n] : \A i, j \in 1..n : o[i] = o[j] => i = j}

InitSession ==
    /\ se_mode \in {"triples", "jsonld"}
    /\ system_prompt \in SystemPrompts
    /\ se_order \in UNION {Orders(n) : n \in 1..MaxChunkNumber}
    /\ se_calls = <<>>
    /\ se_all_extracted_data = <<>>
    /\ se_failed_chunks = <<>>
    /\ se_result = None
    /\ se_pc = "calls"
    /\ ChunkIdle /\ NormIdle /\ DedupIdle /\ PipeIdle /\ ExtrIdle /\ CfgIdle

\* the caller keeps the tuple: the data of a success, {chunk_number, error} of a failure
Accumulate(k, prompt, outcome, result) ==
    /\ se_calls' = Append(se_calls, [chunk_number |-> k, system_prompt |-> prompt,
                                     outcome |-> outcome, result |-> result])
    /\ IF result.success
       THEN /\ se_all_extracted_data' = Append(se_all_extracted_data, result.data)
            /\ UNCHANGED se_failed_chunks
       ELSE /\ se_failed_chunks' = Append(se_failed_chunks,
                                         [chunk_number |-> k, error |-> result.error])
            /\ UNCHANGED se_all_extracted_data

\* one extract_from_chunk call for the next chunk: the JSON-LD extractor formats the
\* system prompt of the client and assigns the formatted text to it
SessionExtract ==
    /\ se_pc = "calls"
    /\ se_order # <<>>
    /\ LET k == Head(se_order)
       IN  IF se_mode = "jsonld" /\ FormatRaises(system_prompt)
           THEN /\ Accumulate(k, system_prompt, None, ExceptResult(se_mode))
                /\ UNCHANGED system_prompt
           ELSE /\ \E outcome \in LlmOutcomes(se_mode, k) :
                       \E result \in {ExtractFromChunk(se_mode, outcome, k, enable_validation,
                                                       enable_normalization)} :
                           Accumulate(k, system_prompt, outcome, result)
                /\ system_prompt' = IF se_mode = "jsonld"
                                    THEN FormattedPrompt(system_prompt)
                                    ELSE system_prompt
    /\ se_order' = Tail(se_order)
    /\ UNCHANGED <<se_mode, se_result, se_pc, chunkVars, normVars, dedupVars, pipeVars,
                   extrVars, cfgVars>>

\* process_results(all_extracted_data, failed_chunks) returns from its try block
ProcessResults ==
    /\ se_pc = "calls"
    /\ se_order = <<>>
    /\ se_result' = IF se_mode = "triples"
                    THEN TripleProcessResults(se_all_extracted_data, se_failed_chunks)
                    ELSE JsonLdProcessResults(se_all_extracted_data, se_failed_chunks)
    /\ se_pc' = "done"
    /\ UNCHANGED <<se_mode, system_prompt, se_order, se_calls, se_all_extracted_data,
                   se_failed_chunks, chunkVars, normVars, dedupVars, pipeVars, extrVars,
                   cfgVars>>

\* _normalize_jsonld_through_rdf raises inside process_results: the except clause
ProcessResultsRaises ==
    /\ se_pc = "calls"
    /\ se_order = <<>>
    /\ se_mode = "jsonld"
    /\ se_result' = JsonLdProcessResultsExcept(se_all_extracted_data, se_failed_chunks)
    /\ se_pc' = "done"
    /\ UNCHANGED <<se_mode, system_prompt, se_order, se_calls, se_all_extracted_data,
                   se_failed_chunks, chunkVars, normVars, dedupVars, pipeVars, extrVars,
                   cfgVars>>

NextSession == SessionExtract \/ ProcessResults \/ ProcessResultsRaises

SpecSession == InitSession /\ [][NextSession]_vars

-----------------------------------------------------------------------------
(* Claims about split_into_chunks *)

\* ceil(a / b) for b > 0
CeilDiv(a, b) == (a + b - 1) \div b

\* the number of chunks the specification gives for N words, chunk_size S, overlap O
ExpectedChunkCount(n, cs, ov) ==
    IF n = 0 THEN 0
    ELSE IF n <= cs THEN 1
    ELSE CeilDiv(n - ov, cs - ov)

\* C5: for every text of N words and every valid (chunk_size S, overlap O),
\* split_into_chunks returns ceil((N - O) / (S - O)) chunks when N > S, one chunk
\* when 0 < N <= S and none when N = 0.
C5_ChunkCount ==
    (ck_pc = "done" /\ ValidConfig(chunk_size, overlap))
        => Len(chunks) = ExpectedChunkCount(Len(words), chunk_size, overlap)

\* word i of the text is word j of chunk k, for some k and j
WordCovered(i) ==
    \E k \in 1..Len(chunks) :
        LET ws == Split(chunks[k].text)
        IN  \E j \in 1..Len(ws) : spans[k][1] + j = i /\ ws[j] = words[i]

\* C6: for every text and every valid (chunk_size, overlap), every word of the
\* whitespace-tokenized text is in at least one returned chunk, at its place in the
\* original order; the safety break never ends the loop before the last word is covered.
C6_ChunkCoverage ==
    (ck_pc = "done" /\ ValidConfig(chunk_size, overlap))
        => /\ \A i \in 1..Len(words) : WordCovered(i)
           /\ \A k \in 1..Len(chunks) :
                Split(chunks[k].text) = SubSeq(words, spans[k][1] + 1, spans[k][2])

\* a call with a valid configuration has returned several chunks, the last of them
\* ending at the last word, after the safety break's comparison was made
C6_Witness ==
    /\ ck_pc = "done" /\ ValidConfig(chunk_size, overlap)
    /\ Len(words) >= 4 /\ Len(chunks) >= 3
    /\ chunk_size - overlap = 1
    /\ spans[Len(chunks)][2] = Len(words)

\* C7: split_into_chunks terminates with at most N chunks for every text of N words
\* and every chunk_size and overlap, degenerate ones included: every iteration either
\* stops the loop or strictly advances start_index.
C7_Terminates ==
    /\ <>(ck_pc = "done")
    /\ [](Len(chunks) <= Len(words))
    /\ [][(ck_pc = "loop" /\ ck_pc' = "loop") => start_index' > start_index]_vars

\* a call on a degenerate object has returned after several iterations
C7_Witness ==
    /\ ck_pc = "done"
    /\ chunk_size - overlap <= 0
    /\ Len(chunks) >= 3
    /\ Len(chunks) = Len(words)

-----------------------------------------------------------------------------
(* Claims about normalize_triple and deduplicate_triples *)

\* the (subject, predicate, object) tuple of a normalized triple
TupleOf(t) == <<t.subject, t.predicate, t.object>>

\* the set of tuples of a list of normalized triples
TupleSet(ts) == {TupleOf(ts[i]) : i \in 1..Len(ts)}

\* the places of X whose normalized tuple is tup
Occurrences(xs, tup) ==
    {i \in 1..Len(xs) :
        NormalizeTriple(xs[i]) # None /\ TupleOf(NormalizeTriple(xs[i])) = tup}

\* the least element of a non-empty set of numbers
Least(S) == CHOOSE i \in S : \A j \in S : i <= j

\* C1: deduplicate_triples identifies triples by the normalized (subject, predicate,
\* object) tuple only: the output holds no tuple twice, holds exactly the tuples that
\* occur (with non-empty fields) in the input, and each output triple carries the chunk
\* of the earliest occurrence of its tuple in input order.
C1_DedupByTuple ==
    dd_pc = "deduped" =>
        /\ \A i, j \in 1..Len(dd_out) :
              TupleOf(dd_out[i]) = TupleOf(dd_out[j]) => i = j
        /\ \A i \in 1..Len(dd_in) :
              NormalizeTriple(dd_in[i]) # None
                  => TupleOf(NormalizeTriple(dd_in[i])) \in TupleSet(dd_out)
        /\ \A j \in 1..Len(dd_out) :
              /\ Occurrences(dd_in, TupleOf(dd_out[j])) # {}
              /\ dd_out[j].source_chunk
                    = dd_in[Least(Occurrences(dd_in, TupleOf(dd_out[j])))].chunk

\* a list with a tuple from chunk 1 repeated, in another spelling, from chunk 2, and a
\* triple with an empty field, has been deduplicated
C1_Witness ==
    /\ dd_pc = "deduped"
    /\ Len(dd_in) = 3 /\ Len(dd_out) = 1
    /\ dd_in[1].chunk = 1 /\ dd_in[2].chunk = 2
    /\ dd_in[1].subject # dd_in[2].subject
    /\ Occurrences(dd_in, TupleOf(dd_out[1])) = {1, 2}
    /\ dd_out[1].source_chunk = 1

\* C2: deduplication is idempotent: deduplicate_triples(deduplicate_triples(X)) equals
\* deduplicate_triples(X), same triples, same order, same fields, source_chunk included.
C2_DedupIdempotent == dd_pc = "again" => dd_out2 = dd_out

\* C3: for every list X and every permutation P of X, deduplicate_triples(P) and
\* deduplicate_triples(X) have the same set of (subject, predicate, object) tuples.
C3_DedupOrderIndependent ==
    dd_pc = "reordered" => TupleSet(dd_perm_out) = TupleSet(dd_out)

\* a list of three triples, two of them with the same tuple from different chunks, has
\* been deduplicated in two different orders that give different provenance
C3_Witness ==
    /\ dd_pc = "reordered"
    /\ Len(dd_in) = 3 /\ dd_perm # dd_in
    /\ Len(dd_out) = 2
    /\ dd_perm_out # dd_out
    /\ \E j \in 1..2 : dd_perm_out[j].source_chunk # dd_out[j].source_chunk

\* lowercased, trimmed, runs of inner whitespace collapsed to one space
Canonical(value) == Join(Split(Lower(value)))

\* C4: normalize_triple lowercases, trims and collapses inner whitespace in subject,
\* predicate and object alike (" Marie  Curie " becomes "marie curie").
C4_NormalizeCanonical ==
    (nt_pc = "returned" /\ nt_out # None) =>
        /\ nt_out.subject = Canonical(nt_in.subject)
        /\ nt_out.predicate = Canonical(nt_in.predicate)
        /\ nt_out.object = Canonical(nt_in.object)

-----------------------------------------------------------------------------
(* Claims about process_text *)

\* the extraction of a chunk failed: the client call failed (API error, timeout,
\* undecodable response), or in JSON-LD mode the answer is no JSON-LD document with
\* "@graph", uses a term that is not in the ontology context, or cannot be normalized
ExtractionFailed(md, answer) ==
    \/ ~answer.success
    \/ /\ md = "jsonld"
       /\ \/ answer.data.type \notin {"dict", "str"}
          \/ answer.data.type = "str" /\ ~answer.data.json_ok
          \/ answer.data.type = "dict" /\ ~answer.data.has_graph
          \/ ~answer.data.terms_known
          \/ ~answer.data.normalizable

\* the entries of failed_chunks for chunk k
FailureEntries(k) == {j \in 1..Len(failed_chunks) : failed_chunks[j].chunk_number = k}

\* C8: a chunk-level failure never aborts a run: when the extraction of chunk k fails,
\* process_text records exactly one entry {chunk_number: k, error} in failed_chunks,
\* still processes every later chunk and reaches the merge step; the failure is never
\* raised out of the per-chunk loop.
C8_ChunkFailureRecovered ==
    /\ \A i \in 1..Len(responses) :
          ExtractionFailed(mode, responses[i].answer) =>
              /\ Cardinality(FailureEntries(responses[i].chunk_number)) = 1
              /\ \A j \in FailureEntries(responses[i].chunk_number) :
                    failed_chunks[j].error # None
    /\ phase = "PerChunkExtraction" => Len(responses) = next_chunk - 1
    /\ phase \in {"Merging", "Done"} => Len(responses) = Len(chunks)
    /\ phase = "Failed" => (chunks = <<>> \/ merge_raised)

\* a run in which chunk 1 failed on an unknown term and chunk 2 on a client error, a
\* later chunk was extracted, and the merge step was reached and completed
C8_Witness ==
    /\ phase = "Done" /\ mode = "jsonld"
    /\ Len(chunks) = 3 /\ Len(failed_chunks) = 2
    /\ responses[1].answer.success /\ ~responses[1].answer.data.terms_known
    /\ ~responses[2].answer.success
    /\ ~ExtractionFailed(mode, responses[3].answer)
    /\ returned.success

\* C9: a merge-stage exception does not fail the run: it is caught, the result carries
\* an empty canonical artifact, failed_chunks gains one synthetic entry describing the
\* merge error, and the pipeline-level outcome is still success = true.
C9_MergeErrorRecovered ==
    (merge_raised /\ returned # None) =>
        /\ returned.success
        /\ returned.result # None
        /\ returned.result.jsonld.graph = <<>>
        /\ Len(returned.result.failed_chunks) = Len(failed_chunks) + 1

\* the steps a run may take from one phase to another
PhaseSteps ==
    {<<"Init", "Chunking">>, <<"Chunking", "PerChunkExtraction">>,
     <<"Chunking", "Failed">>, <<"PerChunkExtraction", "Merging">>,
     <<"Merging", "Done">>, <<"Merging", "Failed">>}

\* every chunk has been sent to the client once, in chunk order
EveryChunkAttempted ==
    /\ Len(responses) = Len(chunks)
    /\ \A i \in 1..Len(chunks) : responses[i].chunk_number = chunks[i].chunk_number

\* C10: a run goes Init -> Chunking -> PerChunkExtraction -> Merging -> Done and never
\* back; Merging starts only after every chunk has been attempted; the run ends in
\* exactly one outcome, Done = (True, result, None) or Failed = (False, None, message),
\* Failed being reached from Chunking when there is no chunk or from an exception.
C10_PhaseOrder ==
    /\ [][phase' # phase => <<phase, phase'>> \in PhaseSteps]_vars
    /\ [](phase \in {"Merging", "Done"} => EveryChunkAttempted)
    /\ [](returned # None <=> phase \in {"Done", "Failed"})
    /\ [](phase = "Done" =>
            returned.success /\ returned.result # None /\ returned.error = None)
    /\ [](phase = "Failed" =>
            /\ ~returned.success /\ returned.result = None /\ returned.error # None
            /\ (chunks = <<>> \/ merge_raised))
    /\ [][phase \notin {"Done", "Failed"}]_vars
    /\ <>(phase \in {"Done", "Failed"})

\* a run over three chunks has gone through the per-chunk loop and the merge and is Done
C10_Witness ==
    /\ phase = "Done" /\ Len(chunks) = 3 /\ Len(responses) = 3
    /\ returned.success /\ returned.result.statistics.total_chunks = 3

-----------------------------------------------------------------------------
(* Claims about the triples of a run *)

\* the candidate items the LLM returned for the chunks that have no failed_chunks entry
CandidatesOfProcessedChunks ==
    {<<i, j>> \in (1..Len(responses)) \X (1..(MaxTriples + 1)) :
        /\ j <= Len(responses[i].candidates)
        /\ FailureEntries(responses[i].chunk_number) = {}}

\* C11: no silent data loss in a triples run: the candidate items of the processed
\* chunks that are not in the final triples are exactly as many as the statistics say
\* were removed (total_triples - unique_triples); every other discarded item belongs to
\* a chunk with a failed_chunks record.
C11_NoSilentLoss ==
    (phase = "Done" /\ mode = "triples") =>
        Cardinality(CandidatesOfProcessedChunks) - Len(returned.result.triples)
            = returned.result.statistics.total_triples
              - returned.result.statistics.unique_triples

\* C12: the statistics of every triples result have unique_triples <= total_triples and
\* duplicates_removed = total_triples - unique_triples.
C12_TripleStatistics ==
    (phase = "Done" /\ mode = "triples") =>
        LET statistics == returned.result.statistics
        IN  /\ statistics.unique_triples <= statistics.total_triples
            /\ "duplicates_removed" \in DOMAIN statistics
            /\ statistics.duplicates_removed
                   = statistics.total_triples - statistics.unique_triples

\* a triple dict one of whose three values is empty or only whitespace
HasEmptyValue(triple) == \E key \in RequiredKeys : Strip(triple[key]) = <<>>

\* C13: a candidate triple that lacks subject, predicate or object, or has a value for
\* one of them that is not a string or is empty or whitespace-only, is neither in the
\* valid output of its chunk nor in the final triples of the run.
C13_InvalidTripleRejected ==
    mode = "triples" =>
        /\ \A i \in 1..Len(responses) :
              responses[i].answer.success =>
                  \A j \in 1..Len(responses[i].answer.data) :
                      LET triple == responses[i].answer.data[j]
                      IN  /\ RequiredKeys \subseteq DOMAIN triple
                          /\ ~HasEmptyValue(triple)
        /\ phase = "Done" =>
              \A j \in 1..Len(returned.result.triples) :
                  ~HasEmptyValue(returned.result.triples[j])

-----------------------------------------------------------------------------
(* Claims about the JSON-LD result of a run *)

\* the documents of the chunks whose extraction did not fail
ExtractedDocs ==
    {responses[i].answer.data :
        i \in {j \in 1..Len(responses) : ~ExtractionFailed(mode, responses[j].answer)}}

\* the statements the extracted documents make
ContributedTriples == UNION {ToRdf(d.graph) : d \in ExtractedDocs}

\* seq[::-1]
Reverse(seq) == [i \in 1..Len(seq) |-> seq[Len(seq) + 1 - i]]

\* C19: the JSON-LD merge deduplicates by RDF equivalence: an entity described by the
\* extracted chunks, whatever the key order or nesting of its descriptions, is in the
\* merged @graph once, with the union of the statements about it, and merging the
\* chunks in the other order gives the same result.
C19_MergeByRdfEquivalence ==
    (phase = "Done" /\ mode = "jsonld") =>
        LET graph == returned.result.jsonld.graph
        IN  /\ \A e \in {t.s : t \in ContributedTriples} :
                  /\ Cardinality({i \in DOMAIN graph : graph[i].id = e}) = 1
                  /\ \A i \in DOMAIN graph :
                        graph[i].id = e =>
                            graph[i].stmts =
                                {[p |-> t.p, lit |-> t.lit, ref |-> t.ref] :
                                 t \in {u \in ContributedTriples : u.s = e}}
            /\ RdfRoundTrip(MergedGraph(Reverse(all_extracted_data))) = graph

\* C20: in every JSON-LD result duplicates_removed = original_entities - total_entities
\* and duplicates_removed >= 0: the RDF round trip never returns more top-level
\* entities than the concatenated @graph arrays held.
C20_JsonLdStatistics ==
    (phase = "Done" /\ mode = "jsonld") =>
        LET statistics == returned.result.statistics
        IN  /\ statistics.duplicates_removed
                   = statistics.original_entities - statistics.total_entities
            /\ statistics.total_entities = Len(returned.result.jsonld.graph)
            /\ statistics.duplicates_removed >= 0

-----------------------------------------------------------------------------
(* Claims about the calls of a run *)

\* C17: in one run the chunker is called once and the LLM client exactly once per
\* emitted chunk, in chunk order, whatever the outcome of earlier chunks: a chunk whose
\* call failed is not retried and no chunk is sent twice.
C17_OneCallPerChunk ==
    /\ [](/\ Len(responses) <= Len(chunks)
          /\ \A i \in 1..Len(responses) :
                responses[i].chunk_number = chunks[i].chunk_number)
    /\ [](phase \in {"Merging", "Done"} => Len(responses) = Len(chunks))
    /\ [][responses' # responses =>
            /\ Len(responses') = Len(responses) + 1
            /\ SubSeq(responses', 1, Len(responses)) = responses]_vars
    /\ [][chunks' # chunks => phase = "Init"]_vars
    /\ [][phase' = "Init" => phase = "Init"]_vars

\* a finished triples run over three chunks whose first two calls failed
C17_Witness ==
    /\ phase = "Done" /\ mode = "triples" /\ Len(chunks) = 3
    /\ ~responses[1].answer.success /\ ~responses[2].answer.success
    /\ responses[3].answer.success
    /\ Len(responses) = 3 /\ Len(failed_chunks) = 2

-----------------------------------------------------------------------------
(* Claims about extract_from_chunk *)

\* the call has returned its tuple after the client answered
ReturnedAfterAnswer(md) == ex_pc = "returned" /\ ex_mode = md /\ ex_answer # None

\* an item of the response that is a triple: an object with the three keys whose values
\* are non-empty strings
IsTriple(item) == PassesFilter(item) /\ ~HasEmptyValue(item.fields)

\* C14: TripleExtractor.extract_from_chunk fails only when the response cannot be parsed
\* at the top level or the client call errors; a response that is a list, also one with
\* a malformed item next to valid triples, gives success=True with its valid triples.
C14_InvalidItemDiscarded ==
    (ReturnedAfterAnswer("triples") /\ ex_outcome.kind = "list") =>
        /\ ex_result.success
        /\ ex_result.data =
               LET valid == SelectSeq(ex_outcome.items, IsTriple)
               IN  [i \in 1..Len(valid) |-> Tagged(valid[i], ex_chunk)]

\* the empty data of a failure: [] for triples, {} for JSON-LD
EmptyData(md) ==
    IF md = "triples"
    THEN <<>>
    ELSE [context |-> "absent", has_graph |-> FALSE, graph |-> <<>>, node |-> <<>>]

\* the output of the LLM the successful result comes from is complete and valid: every
\* triple has its three non-empty values; the document has "@graph" and passed the
\* validation and the normalization the configuration enables
OutputValid ==
    /\ ex_answer # None
    /\ ex_answer.success
    /\ IF ex_mode = "triples"
       THEN \A i \in 1..Len(ex_result.data) :
                /\ RequiredKeys \subseteq DOMAIN ex_result.data[i]
                /\ ~HasEmptyValue(ex_result.data[i])
       ELSE /\ ex_answer.data.type \in {"dict", "str"}
            /\ ex_answer.data.json_ok
            /\ ex_answer.data.has_graph
            /\ enable_validation => ex_answer.data.terms_known
            /\ enable_normalization => ex_answer.data.normalizable

\* C15: extract_from_chunk of either extractor returns a tuple (success, data, error) and
\* does not raise: with success False the data is empty and the error is a message; with
\* success True the error is None and the data is not partial or invalid output.
C15_ResultContract ==
    /\ [](ex_pc = "returned" =>
            /\ DOMAIN ex_result = {"success", "data", "error"}
            /\ ex_result.success \in BOOLEAN
            /\ ~ex_result.success =>
                  /\ ex_result.data = EmptyData(ex_mode)
                  /\ ex_result.error # None
                  /\ ex_result.error.str # ""
            /\ ex_result.success =>
                  /\ ex_result.error = None
                  /\ OutputValid)
    /\ <>(ex_pc = "returned")

\* the client answered with a batch that has a triple with an empty subject, and the
\* call returned a failure with no data
C15_Witness ==
    /\ ReturnedAfterAnswer("triples")
    /\ ex_answer.success
    /\ \E i \in 1..Len(ex_answer.data) : HasEmptyValue(ex_answer.data[i])
    /\ ~ex_result.success
    /\ ex_result.data = <<>>

\* C16: the data extract_from_chunk returns with success=True passes validate_data of the
\* same extractor: a list of triples with non-empty string values, or an object with an
\* "@graph" list, also when the document was normalized.
C16_SuccessPassesValidateData ==
    (ex_pc = "returned" /\ ex_result.success) =>
        IF ex_mode = "triples"
        THEN ValidateTripleData(ex_result.data)
        ELSE ValidateJsonLdData(ex_result.data)

\* the response of the LLM is a document with "@graph", as an object or as a JSON string
ResponseHasGraph ==
    /\ ex_answer.success
    /\ ex_answer.data.type \in {"dict", "str"}
    /\ ex_answer.data.json_ok
    /\ ex_answer.data.has_graph

\* C18: for every response with "@graph" the "@context" handed to the validation and to
\* the normalization, and the one of the returned document, is the context of the
\* ontology, whether the LLM gave none, its own or the same.
C18_ContextRepair ==
    (ReturnedAfterAnswer("jsonld") /\ ResponseHasGraph) =>
        /\ Len(ex_seen) >= 1
        /\ ex_seen[1].step = "validate"
        /\ \A i \in 1..Len(ex_seen) : ex_seen[i].context = "ontology"
        /\ ex_result.success => ex_result.data.context = "ontology"

\* a document that came with the context of the LLM was validated and returned as it
\* was handed to the normalization
C18_Witness ==
    /\ ReturnedAfterAnswer("jsonld")
    /\ ResponseHasGraph
    /\ ex_answer.data.context = "llm"
    /\ ~enable_normalization
    /\ Len(ex_seen) = 2
    /\ ex_result.success
    /\ ex_result.data.context = "ontology"

-----------------------------------------------------------------------------
(* Claims about the text of a run and its chunks *)

\* the text is empty or has whitespace only
Blank(t) == \A i \in 1..Len(t) : t[i] \in Whitespace

\* C21: for an empty or whitespace-only text split_into_chunks returns the empty list
\* and process_text fails hard: it returns (False, None, message), the LLM client is
\* never called and no result with statistics is produced.
C21_EmptyTextFails ==
    Blank(text) =>
        /\ chunks = <<>>
        /\ responses = <<>>
        /\ phase \in {"Init", "Chunking", "Failed"}
        /\ returned # None =>
              /\ returned.success = FALSE
              /\ returned.result = None
              /\ returned.error # None
              /\ returned.error.str # ""

\* the run on a text of a blank and a newline has returned its failure
C21_Witness ==
    /\ text = <<" ", "\n">>
    /\ phase = "Failed"
    /\ returned # None
    /\ returned.success = FALSE
    /\ responses = <<>>

\* C22: the chunks split_into_chunks emits are numbered 1, 2, 3, ... in the order of
\* emission, with no number skipped or repeated, for every text and configuration.
C22_ChunkNumbering ==
    /\ \A i \in 1..Len(chunks) : chunks[i].chunk_number = i
    /\ ck_pc = "loop" => chunk_number = Len(chunks) + 1

\* a finished call that emitted three chunks or more
C22_Witness == ck_pc = "done" /\ Len(chunks) >= 3 /\ chunks[3].chunk_number = 3

\* the number of words of the k-th emitted chunk
WindowLength(k) == spans[k][2] - spans[k][1]

\* C26: for every valid (chunk_size S, overlap O) and text of N words, chunk k starts at
\* word (k-1)*(S-O) and holds the words up to min((k-1)*(S-O)+S, N); consecutive chunks
\* share exactly O words when the earlier one is full, every chunk holds between 1 and S
\* words, and only the final chunk may hold fewer than S words.
C26_WindowPositions ==
    ValidConfig(chunk_size, overlap) =>
        \A k \in 1..Len(spans) :
            /\ spans[k][1] = (k - 1) * (chunk_size - overlap)
            /\ spans[k][2] = Min((k - 1) * (chunk_size - overlap) + chunk_size, Len(words))
            /\ chunks[k].text = Join(SubSeq(words, spans[k][1] + 1, spans[k][2]))
            /\ WindowLength(k) >= 1
            /\ WindowLength(k) <= chunk_size
            /\ k < Len(spans) =>
                  /\ WindowLength(k) = chunk_size
                  /\ spans[k][2] - spans[k + 1][1] = overlap

-----------------------------------------------------------------------------
(* Claims about the constructors *)

\* the preconditions of the chunker
ChunkerPrecondition(cs, ov) == cs > 0 /\ 0 <= ov /\ ov < cs

\* C23: chunk_size > 0 and 0 <= overlap < chunk_size are enforced when the chunker and
\* the text-processing configuration are constructed: a violation raises there, a
\* chunker that exists satisfies them, and split_into_chunks raises no such error.
C23_PreconditionsAtConstruction ==
    /\ "TextProcessingConfig" \in cf_built =>
           ChunkerPrecondition(cf_args.chunk_size, cf_args.chunk_overlap)
    /\ "TextProcessor" \in cf_built =>
           /\ ChunkerPrecondition(chunk_size, overlap)
           /\ chunk_size = cf_args.chunk_size
           /\ overlap = cf_args.chunk_overlap
    /\ (cf_pc # "idle" /\ ~ChunkerPrecondition(cf_args.chunk_size, cf_args.chunk_overlap)) =>
           /\ cf_pc \in {"start", "llm", "Raised"}
           /\ cf_pc = "Raised" => cf_error # None
           /\ ck_pc = "idle"
    /\ (cf_pc # "idle" /\ ck_pc # "idle") =>
           /\ "TextProcessor" \in cf_built
           /\ cf_error = None
           /\ cf_pc = "Ready"

\* the chunker of a TripleExtractor built from a configuration with chunk_size 2 and
\* overlap 1 has split a text into chunks
C23_Witness ==
    /\ cf_pc = "Ready"
    /\ {"TextProcessingConfig", "TripleExtractor", "TextProcessor"} \subseteq cf_built
    /\ chunk_size = 2 /\ overlap = 1
    /\ ck_pc = "done"
    /\ Len(chunks) >= 2

\* the ontology path is given
PathGiven == cf_args.ontology_path # None

\* C24: the configuration is validated when it is constructed: an extraction mode outside
\* {triples, jsonld}, jsonld without an ontology path, an ontology path with a mode that
\* is not jsonld, or an unsupported provider raises there, so that nothing is processed
\* under an invalid combination.
C24_ConfigurationFailsFast ==
    /\ "LLMConfig" \in cf_built => cf_args.provider \in {"openai", "anthropic"}
    /\ "ExtractionConfig" \in cf_built =>
           /\ cf_args.extraction_mode \in {"triples", "jsonld"}
           /\ PathGiven <=> cf_args.extraction_mode = "jsonld"
    /\ ({"TripleExtractor", "JSONLDExtractor"} \cap cf_built # {}) =>
           /\ cf_args.provider \in {"openai", "anthropic"}
           /\ cf_args.extraction_mode \in {"triples", "jsonld"}
           /\ PathGiven <=> cf_args.extraction_mode = "jsonld"

-----------------------------------------------------------------------------
(* Claims about what the chunks of a run contribute to its result *)

RECURSIVE EntitiesOfProcessedChunks(_)
\* the entities of the chunks i.. that have no entry in failed_chunks, in chunk order
EntitiesOfProcessedChunks(i) ==
    IF i > Len(responses) THEN <<>>
    ELSE (IF FailureEntries(responses[i].chunk_number) = {}
          THEN responses[i].answer.data.graph
          ELSE <<>>) \o EntitiesOfProcessedChunks(i + 1)

\* C29: in a JSON-LD run every chunk counted as processed contributes all its entities
\* to the merge input: the concatenated @graph is the concatenation, in chunk order, of
\* the entities of the chunks without a failed_chunks record; no such chunk is skipped.
C29_ProcessedChunksMerged ==
    (mode = "jsonld" /\ phase \in {"Merging", "Done"}) =>
        /\ MergedGraph(all_extracted_data) = EntitiesOfProcessedChunks(1)
        /\ phase = "Done" =>
              returned.result.statistics.original_entities
                  = Len(EntitiesOfProcessedChunks(1))

\* the successful chunks whose output has a triple that normalizes to the tuple of t
ChunksContaining(t) ==
    {responses[i].chunk_number :
        i \in {j \in 1..Len(responses) :
                 /\ responses[j].answer.success
                 /\ \E m \in 1..Len(responses[j].answer.data) :
                       LET n == NormalizeTriple(responses[j].answer.data[m])
                       IN  /\ n # None
                           /\ n.subject = t.subject
                           /\ n.predicate = t.predicate
                           /\ n.object = t.object}}

\* C28: in a triples run every triple the client returns is tagged with the number of
\* its chunk, and every triple of the result has as source_chunk the smallest number of
\* the successful chunks whose output held it: a number from 1 to the number of chunks,
\* never the placeholder 'unknown'.
C28_Provenance ==
    mode = "triples" =>
        /\ \A i \in 1..Len(responses) :
              responses[i].answer.success =>
                  \A m \in 1..Len(responses[i].answer.data) :
                      responses[i].answer.data[m].chunk = responses[i].chunk_number
        /\ phase = "Done" =>
              \A j \in 1..Len(returned.result.triples) :
                  LET t == returned.result.triples[j]
                  IN  /\ t.source_chunk # Unknown
                      /\ t.source_chunk \in 1..Len(chunks)
                      /\ ChunksContaining(t) # {}
                      /\ \A c \in ChunksContaining(t) : t.source_chunk <= c
                      /\ t.source_chunk \in ChunksContaining(t)

\* a finished run whose first chunk failed and whose result has a triple of chunk 2
\* that chunk 3 returned as well
C28_Witness ==
    /\ mode = "triples" /\ phase = "Done" /\ Len(chunks) = 3
    /\ ~responses[1].answer.success
    /\ \E j \in 1..Len(returned.result.triples) :
          /\ returned.result.triples[j].source_chunk = 2
          /\ ChunksContaining(returned.result.triples[j]) = {2, 3}

-----------------------------------------------------------------------------
(* Claims about the coercion of the response *)

\* the response is an object with the keys subject, predicate and object
SingleTripleObject ==
    /\ ex_outcome.kind = "object"
    /\ {"subject", "predicate", "object"} \subseteq DOMAIN ex_outcome.value.item.fields

\* the response is an array, a single triple object, or an object with exactly one
\* list-valued member
Coercible ==
    \/ ex_outcome.kind = "list"
    \/ SingleTripleObject
    \/ ex_outcome.kind = "object" /\ Len(ex_outcome.value.lists) = 1

\* the list of candidate triples a coercible response is coerced to
CoercedList ==
    IF ex_outcome.kind = "list" THEN ex_outcome.items
    ELSE IF SingleTripleObject THEN <<ex_outcome.value.item>>
    ELSE ex_outcome.value.lists[1]

\* C30: in triples mode the parser returns success with the list of candidate triples
\* for a JSON array, for a single object with subject, predicate and object (wrapped
\* into a list) and for an object with exactly one list-valued member; it returns a
\* failure with a diagnostic and no data for an empty response, undecodable JSON, an
\* object with no or with several list-valued members, or a scalar; it does not raise.
C30_ResponseCoercion ==
    (ex_mode = "triples" /\ ex_pc \in {"answered", "returned"} /\ ex_outcome # None
        /\ ex_outcome.kind \in {"list", "object", "empty", "undecodable", "scalar"}) =>
        /\ ex_answer # None
        /\ IF Coercible
           THEN /\ ex_answer.success
                /\ ex_answer.error = None
                /\ ex_answer.data = ValidTriples(CoercedList, ex_chunk)
           ELSE /\ ~ex_answer.success
                /\ ex_answer.data = None
                /\ ex_answer.error # None
                /\ ex_answer.error.str # ""

\* the client answered for a wrapper object with one list of two triples
C30_Witness ==
    /\ ex_mode = "triples" /\ ex_pc = "answered"
    /\ ex_outcome.kind = "object"
    /\ ~SingleTripleObject
    /\ Len(ex_outcome.value.lists) = 1
    /\ ex_answer.success
    /\ Len(ex_answer.data) = 2

-----------------------------------------------------------------------------
(* Claims about the calls of an extractor for the chunks of a text *)

\* the system prompt the client was constructed with
ConstructedPrompt == IF se_calls = <<>> THEN system_prompt ELSE se_calls[1].system_prompt

\* C25: the extract_from_chunk calls share no mutable state but the two lists: a call
\* leaves the system prompt of the client as it was constructed, every call sees that
\* prompt, and the outcome for a chunk is the one of its LLM answer wherever the call
\* stands in the order of the calls.
C25_CallsShareNoState ==
    se_pc \in {"calls", "done"} =>
        /\ system_prompt = ConstructedPrompt
        /\ \A i \in 1..Len(se_calls) :
              /\ se_calls[i].system_prompt = ConstructedPrompt
              /\ se_calls[i].outcome \in LlmOutcomes(se_mode, se_calls[i].chunk_number)
              /\ se_calls[i].result
                     = ExtractFromChunk(se_mode, se_calls[i].outcome,
                                        se_calls[i].chunk_number, enable_validation,
                                        enable_normalization)

\* C27: the statistics of every result process_results returns agree with its data:
\* statistics.failed_chunks is the length of failed_chunks, processed_chunks plus
\* failed_chunks is total_chunks, total_chunks is the number of chunks handed to the
\* extractor, and every entry of failed_chunks has chunk_number and error.
C27_StatisticsConsistent ==
    se_pc = "done" =>
        /\ se_result.statistics.failed_chunks = Len(se_result.failed_chunks)
        /\ se_result.statistics.processed_chunks + se_result.statistics.failed_chunks
               = se_result.statistics.total_chunks
        /\ se_result.statistics.total_chunks = Len(se_calls)
        /\ \A i \in 1..Len(se_result.failed_chunks) :
              {"chunk_number", "error"} \subseteq DOMAIN se_result.failed_chunks[i]

====
